---- MODULE Spec2Model ----
(***************************************************************************)
(* Model of AgentRuntime (packages/agent-auth/src/index.ts): the token     *)
(* lifecycle (load, ensureAccessToken, refreshAccessToken, authenticate)   *)
(* and the API client built by createApiClient.                            *)
(*                                                                         *)
(* JavaScript runs one continuation at a time, so every stretch of code    *)
(* between two awaits is one atomic action.  The transport (fetch), the    *)
(* signer and the storage adapter are injected capabilities: what they     *)
(* answer, and when, is a nondeterministic choice.                         *)
(***************************************************************************)
EXTENDS Integers, FiniteSets, Sequences, TLC

\* ---- bounds ----
NumCallers == 2
MaxCalls == 3

\* ---- processes ----
Loader == 0
Callers == 1..NumCallers
Procs == {Loader} \cup Callers

\* ---- values ----
\* null / undefined: the initial value of the token fields, a JSON field
\* that is missing from a response, a storage key that is not set
None == "none"
\* the empty string of `this.accessToken ?? ''`
Empty == ""
AccessTokens == {"AT1", "AT2"}
RefreshTokens == {"RT1", "RT2"}
\* the refresh token found in storage at start, and the ones the identity
\* service hands out afterwards
StoredRefreshTokens == {"RT1"}
IssuedRefreshTokens == {"RT2"}
\* a refresh token that somebody else (another process sharing the storage
\* adapter) puts into storage
ExternalRefreshTokens == {"RTX"}
ChallengeIds == {"ch1", "ch2"}
Signatures == {"sig"}
\* what an awaited fetch gives: a response with ok = true and a JSON body,
\* a response with ok = false, or a rejection (network error, or a body
\* that response.json() cannot parse)
Outcomes == {"ok", "status", "error"}
ApiPaths == {"/agents/me", "/wallet/sign-typed-data", "/wallet/sign-message", "/agents"}

VARIABLES
    baseUrl,       \* config.loader.overrides.baseUrl is set
    hasStorage,    \* config.storage is set
    accessToken,   \* this.accessToken
    refreshToken,  \* this.refreshToken
    storage,       \* the storage adapter's entry 'refresh_token'
    proc,          \* per process: where its async function stands, its locals, and
                   \* changed: its authentication attempt has changed a cached token
    peers,         \* per caller: the callers whose slow call overlaps its current call
    calls          \* number of calls started so far

vars == <<baseUrl, hasStorage, accessToken, refreshToken, storage, proc, peers, calls>>

NoTokens == [accessToken |-> None, refreshToken |-> None]

\* a process that is not running anything
Fresh ==
    [pc |-> "idle", kind |-> "-", rt |-> None, chal |-> None,
     sig |-> None, result |-> None, status |-> "-",
     rout |-> "-", refreshFailed |-> FALSE, tokens |-> NoTokens,
     changed |-> FALSE]

\* pcs of a caller that is inside ensureAccessToken and past the fast path
RefreshPcs == {"refresh", "refreshSet", "refreshDel"}
AuthPcs == {"challenge", "sign", "exchange", "authSet"}
SlowPcs == RefreshPcs \cup AuthPcs \cup {"afterRefresh", "afterAuth"}

\* the locals of a finished call are gone
Finished(r) ==
    [r EXCEPT !.pc = "done", !.rt = None, !.chal = None, !.sig = None,
              !.rout = "-", !.refreshFailed = FALSE,
              !.tokens = NoTokens, !.changed = FALSE]

\* an exception leaves the running async function: load rejects, or
\* ensureAccessToken rejects and with it the API operation awaiting it
Throw(r) ==
    [Finished(r) EXCEPT !.pc = IF r.kind = "load" THEN "failed" ELSE "done",
                        !.status = "error", !.result = None]

\* ensureAccessToken returns tok
Return(r, tok) ==
    [Finished(r) EXCEPT !.status = "ok", !.result = tok]

\* refreshAccessToken returns (normally) to load or to ensureAccessToken;
\* the record keeps whether the refresh request failed and the tokens of
\* its response
RefreshReturn(r) ==
    [r EXCEPT !.pc = IF r.kind = "load" THEN "loaded" ELSE "afterRefresh",
              !.rt = None, !.rout = "-",
              !.refreshFailed = (r.rout \in {"status", "error"})]

\* the test of the cached token left out: no fast path
CachedNever(tok) == FALSE

\* `if (this.accessToken)`: null, undefined and '' are falsy
Cached(tok) == tok # None /\ tok # Empty

\* the refresh request takes the refresh token from storage
refreshAccessTokenFromStorage(r, tok) ==
    IF tok = None THEN RefreshReturn(r)
    ELSE IF ~baseUrl THEN RefreshReturn(r)
    ELSE [r EXCEPT !.pc = "refresh", !.rt = IF storage # None THEN storage ELSE tok]

\* refreshAccessToken up to its first await; tok is this.refreshToken
refreshAccessToken(r, tok) ==
    IF tok = None THEN RefreshReturn(r)
    ELSE IF ~baseUrl THEN RefreshReturn(r)
    ELSE [r EXCEPT !.pc = "refresh", !.rt = tok]

\* authenticate without the test of baseUrl
authenticateNoBaseUrlCheck(r) == [r EXCEPT !.pc = "challenge"]

\* authenticate up to its first await
authenticate(r) ==
    IF ~baseUrl THEN Throw(r)
    ELSE [r EXCEPT !.pc = "challenge"]

\* the catch block of refreshAccessToken, up to its await
RefreshCatch(r) ==
    IF hasStorage
    THEN [r EXCEPT !.pc = "refreshDel", !.tokens.refreshToken = None]
    ELSE RefreshReturn(r)

Step(p, r) == proc' = [proc EXCEPT ![p] = r]

Config == <<baseUrl, hasStorage>>

Init ==
    /\ baseUrl \in BOOLEAN
    /\ hasStorage \in BOOLEAN
    /\ accessToken = None
    /\ refreshToken = None
    /\ storage \in (IF hasStorage THEN StoredRefreshTokens \cup {None} ELSE {None})
    /\ proc = [p \in Procs |-> Fresh]
    /\ peers = [c \in Callers |-> {}]
    /\ calls = 0

\* AgentRuntime.load up to `await config.storage?.get('refresh_token')`
load ==
    /\ proc[Loader].pc = "idle"
    /\ LET r == [Fresh EXCEPT !.kind = "load"]
       IN  IF hasStorage
           THEN Step(Loader, [r EXCEPT !.pc = "get"])
           ELSE Step(Loader, [r EXCEPT !.pc = "loaded"])
    /\ UNCHANGED <<Config, accessToken, refreshToken, storage, peers, calls>>

\* load keeps the stored token and leaves the refresh to the first call
loadGetLazy(ok) ==
    /\ proc[Loader].pc = "get"
    /\ IF ~ok
       THEN /\ Step(Loader, Throw(proc[Loader]))
            /\ UNCHANGED refreshToken
       ELSE /\ refreshToken' = storage
            /\ Step(Loader, [proc[Loader] EXCEPT !.pc = "loaded"])
    /\ UNCHANGED <<Config, accessToken, storage, peers, calls>>

\* load after the storage get: the stored token, if any, is refreshed
loadGet(ok) ==
    /\ proc[Loader].pc = "get"
    /\ IF ~ok
       THEN /\ Step(Loader, Throw(proc[Loader]))
            /\ UNCHANGED refreshToken
       ELSE IF storage # None
       THEN /\ refreshToken' = storage
            /\ Step(Loader, refreshAccessToken(proc[Loader], storage))
       ELSE /\ Step(Loader, [proc[Loader] EXCEPT !.pc = "loaded"])
            /\ UNCHANGED refreshToken
    /\ UNCHANGED <<Config, accessToken, storage, peers, calls>>

\* refreshAccessToken after `await fetchImpl(.../auth/refresh)` and, for an
\* ok response, the parse of its body
refreshResponse(p, out, at, rt) ==
    /\ proc[p].pc = "refresh"
    /\ out # "ok" => at = None /\ rt = None
    /\ LET r == [proc[p] EXCEPT !.rout = out,
                                !.tokens = [accessToken |-> at, refreshToken |-> rt]]
       IN  CASE out = "ok" ->
                  /\ accessToken' = at
                  /\ refreshToken' = IF rt # None THEN rt ELSE refreshToken
                  /\ IF rt # None /\ hasStorage
                     THEN Step(p, [r EXCEPT !.pc = "refreshSet"])
                     ELSE Step(p, RefreshReturn(r))
             [] out = "status" ->
                  /\ Step(p, RefreshReturn(r))
                  /\ UNCHANGED <<accessToken, refreshToken>>
             [] out = "error" ->
                  /\ refreshToken' = None
                  /\ Step(p, RefreshCatch(r))
                  /\ UNCHANGED <<accessToken>>
    /\ UNCHANGED <<Config, storage, peers, calls>>

\* the rotated refresh token is not written to storage
refreshStorageSetSkipped(p, ok) ==
    /\ proc[p].pc = "refreshSet"
    /\ IF ok
       THEN /\ Step(p, RefreshReturn(proc[p]))
            /\ UNCHANGED <<refreshToken, storage>>
       ELSE /\ refreshToken' = None
            /\ Step(p, RefreshCatch(proc[p]))
            /\ UNCHANGED storage
    /\ UNCHANGED <<Config, accessToken, peers, calls>>

\* refreshAccessToken after `await storage.set(...)`; the call is inside the
\* try block, so a rejection lands in the catch block
refreshStorageSet(p, ok) ==
    /\ proc[p].pc = "refreshSet"
    /\ IF ok
       THEN /\ storage' = proc[p].tokens.refreshToken
            /\ Step(p, RefreshReturn(proc[p]))
            /\ UNCHANGED refreshToken
       ELSE /\ refreshToken' = None
            /\ Step(p, RefreshCatch(proc[p]))
            /\ UNCHANGED storage
    /\ UNCHANGED <<Config, accessToken, peers, calls>>

\* refreshAccessToken after `await storage.delete(...)` in the catch block
refreshStorageDelete(p, ok) ==
    /\ proc[p].pc = "refreshDel"
    /\ IF ok
       THEN /\ storage' = None
            /\ Step(p, RefreshReturn(proc[p]))
       ELSE /\ Step(p, Throw(proc[p]))
            /\ UNCHANGED storage
    /\ UNCHANGED <<Config, accessToken, refreshToken, peers, calls>>

\* a call of ensureAccessToken, up to its first await.  The four API
\* operations start with `await runtime.ensureAccessToken()`, so a call of
\* one of them is this call followed by apiFetch.  Callers are
\* interchangeable, so a call is made by the first caller that is free.
ensureAccessToken(c) ==
    /\ proc[Loader].pc = "loaded"
    /\ proc[c].pc \in {"idle", "done", "apiDone"}
    /\ \A d \in Callers : d < c => proc[d].pc \notin {"idle", "done", "apiDone"}
    /\ calls < MaxCalls
    /\ calls' = calls + 1
    /\ LET inflight == {d \in Callers \ {c} : proc[d].pc \in SlowPcs}
       IN  IF Cached(accessToken)
           THEN /\ Step(c, Return([Fresh EXCEPT !.kind = "call"], accessToken))
                /\ peers' = [d \in Callers |-> IF d = c THEN {} ELSE peers[d] \ {c}]
           ELSE /\ peers' = [d \in Callers |->
                                IF d = c THEN inflight
                                ELSE IF d \in inflight THEN peers[d] \cup {c}
                                ELSE peers[d] \ {c}]
                /\ IF refreshToken # None
                   THEN Step(c, refreshAccessToken([Fresh EXCEPT !.kind = "call"], refreshToken))
                   ELSE Step(c, authenticate([Fresh EXCEPT !.kind = "call"]))
    /\ UNCHANGED <<Config, accessToken, refreshToken, storage>>

\* a refresh that brought no access token is tried again
afterRefreshRetry(c) ==
    /\ proc[c].pc = "afterRefresh"
    /\ IF Cached(accessToken)
       THEN Step(c, Return(proc[c], accessToken))
       ELSE IF refreshToken # None
       THEN Step(c, refreshAccessToken([proc[c] EXCEPT !.tokens = NoTokens], refreshToken))
       ELSE Step(c, authenticate([proc[c] EXCEPT !.tokens = NoTokens]))
    /\ UNCHANGED <<Config, accessToken, refreshToken, storage, peers, calls>>

\* ensureAccessToken after `await this.refreshAccessToken()`
afterRefresh(c) ==
    /\ proc[c].pc = "afterRefresh"
    /\ IF Cached(accessToken)
       THEN Step(c, Return(proc[c], accessToken))
       ELSE Step(c, authenticate([proc[c] EXCEPT !.tokens = NoTokens]))
    /\ UNCHANGED <<Config, accessToken, refreshToken, storage, peers, calls>>

\* authenticate after `await fetchImpl(.../auth/challenge)` and the parse of
\* the body: the signer is called with the challenge
challengeResponse(c, out, id) ==
    /\ proc[c].pc = "challenge"
    /\ IF out = "ok"
       THEN Step(c, [proc[c] EXCEPT !.pc = "sign", !.chal = id])
       ELSE Step(c, Throw(proc[c]))
    /\ UNCHANGED <<Config, accessToken, refreshToken, storage, peers, calls>>

\* the exchange request is sent with a challenge id that is not the one of
\* the challenge response
signChallengeOtherId(c, ok, sig) ==
    /\ proc[c].pc = "sign"
    /\ IF ok
       THEN Step(c, [proc[c] EXCEPT !.pc = "exchange", !.sig = sig, !.chal = "ch1"])
       ELSE Step(c, Throw(proc[c]))
    /\ UNCHANGED <<Config, accessToken, refreshToken, storage, peers, calls>>

\* authenticate after `await signer.signChallenge(...)`: the exchange request
\* is sent with proc[c].chal and the signature
signChallenge(c, ok, sig) ==
    /\ proc[c].pc = "sign"
    /\ IF ok
       THEN Step(c, [proc[c] EXCEPT !.pc = "exchange", !.sig = sig])
       ELSE Step(c, Throw(proc[c]))
    /\ UNCHANGED <<Config, accessToken, refreshToken, storage, peers, calls>>

\* authenticate after `await fetchImpl(.../auth/exchange)` and the parse of
\* the body
tokenResponse(c, out, at, rt) ==
    /\ proc[c].pc = "exchange"
    /\ out # "ok" => at = None /\ rt = None
    /\ IF out = "ok"
       THEN /\ accessToken' = at
            /\ refreshToken' = rt
            /\ LET r == [proc[c] EXCEPT !.tokens = [accessToken |-> at, refreshToken |-> rt],
                                        !.chal = None, !.sig = None]
               IN  IF rt # None /\ hasStorage
                   THEN Step(c, [r EXCEPT !.pc = "authSet",
                                          !.changed = (at # accessToken \/ rt # refreshToken)])
                   ELSE Step(c, [r EXCEPT !.pc = "afterAuth"])
       ELSE /\ Step(c, Throw(proc[c]))
            /\ UNCHANGED <<accessToken, refreshToken>>
    /\ UNCHANGED <<Config, storage, peers, calls>>

\* authenticate after `await storage.set(...)`
authStorageSet(c, ok) ==
    /\ proc[c].pc = "authSet"
    /\ IF ok
       THEN /\ storage' = proc[c].tokens.refreshToken
            /\ Step(c, [proc[c] EXCEPT !.pc = "afterAuth", !.changed = FALSE])
       ELSE /\ Step(c, Throw(proc[c]))
            /\ UNCHANGED storage
    /\ UNCHANGED <<Config, accessToken, refreshToken, peers, calls>>

\* the return waits until some call has cached an access token
afterAuthWaitsForToken(c) ==
    /\ proc[c].pc = "afterAuth"
    /\ Cached(accessToken)
    /\ Step(c, Return(proc[c], accessToken))
    /\ UNCHANGED <<Config, accessToken, refreshToken, storage, peers, calls>>

\* ensureAccessToken after `await this.authenticate()`
afterAuth(c) ==
    /\ proc[c].pc = "afterAuth"
    /\ Step(c, Return(proc[c], IF accessToken = None THEN Empty ELSE accessToken))
    /\ UNCHANGED <<Config, accessToken, refreshToken, storage, peers, calls>>

\* the API operation goes on although ensureAccessToken has rejected
apiFetchAfterFailure(c, path) ==
    /\ proc[c].pc = "done"
    /\ path \in ApiPaths
    /\ Step(c, [proc[c] EXCEPT !.pc = "api", !.status = "-"])
    /\ UNCHANGED <<Config, accessToken, refreshToken, storage, peers, calls>>

\* an API operation after `await runtime.ensureAccessToken()`: the request is
\* sent to path with `Authorization: Bearer ${token}`, token = proc[c].result;
\* the four operations differ in nothing else that the runtime keeps
apiFetch(c, path) ==
    /\ proc[c].pc = "done"
    /\ proc[c].status = "ok"
    /\ path \in ApiPaths
    /\ Step(c, [proc[c] EXCEPT !.pc = "api", !.status = "-"])
    /\ UNCHANGED <<Config, accessToken, refreshToken, storage, peers, calls>>

\* a response that is not ok drops the cached access token
apiResponseInvalidates(c, out) ==
    /\ proc[c].pc = "api"
    /\ Step(c, [proc[c] EXCEPT !.pc = "apiDone", !.result = None,
                               !.status = IF out = "ok" THEN "ok" ELSE "error"])
    /\ accessToken' = IF out = "ok" THEN accessToken ELSE None
    /\ UNCHANGED <<Config, refreshToken, storage, peers, calls>>

\* an API operation after `await fetchImpl(...)`
apiResponse(c, out) ==
    /\ proc[c].pc = "api"
    /\ Step(c, [proc[c] EXCEPT !.pc = "apiDone", !.result = None,
                               !.status = IF out = "ok" THEN "ok" ELSE "error"])
    /\ UNCHANGED <<Config, accessToken, refreshToken, storage, peers, calls>>

Next ==
    \/ load
    \/ \E ok \in BOOLEAN : loadGet(ok)
    \/ \E p \in Procs, out \in Outcomes, at \in AccessTokens \cup {None},
          rt \in IssuedRefreshTokens \cup {None} : refreshResponse(p, out, at, rt)
    \/ \E p \in Procs, ok \in BOOLEAN : refreshStorageSet(p, ok)
    \/ \E p \in Procs, ok \in BOOLEAN : refreshStorageDelete(p, ok)
    \/ \E c \in Callers : ensureAccessToken(c)
    \/ \E c \in Callers : afterRefresh(c)
    \/ \E c \in Callers, out \in Outcomes, id \in ChallengeIds :
          challengeResponse(c, out, id)
    \/ \E c \in Callers, ok \in BOOLEAN, sig \in Signatures :
          signChallenge(c, ok, sig)
    \/ \E c \in Callers, out \in Outcomes, at \in AccessTokens \cup {None},
          rt \in IssuedRefreshTokens \cup {None} : tokenResponse(c, out, at, rt)
    \/ \E c \in Callers, ok \in BOOLEAN : authStorageSet(c, ok)
    \/ \E c \in Callers : afterAuth(c)
    \/ \E c \in Callers, path \in ApiPaths : apiFetch(c, path)
    \/ \E c \in Callers, out \in Outcomes : apiResponse(c, out)

Spec == Init /\ [][Next]_vars

\* the next step of c's call of ensureAccessToken: the answer to the request
\* it awaits, or the continuation after an awaited method has returned
CallerStep(c) ==
    \/ \E out \in Outcomes, at \in AccessTokens \cup {None},
          rt \in IssuedRefreshTokens \cup {None} : refreshResponse(c, out, at, rt)
    \/ \E ok \in BOOLEAN : refreshStorageSet(c, ok)
    \/ \E ok \in BOOLEAN : refreshStorageDelete(c, ok)
    \/ afterRefresh(c)
    \/ \E out \in Outcomes, id \in ChallengeIds : challengeResponse(c, out, id)
    \/ \E ok \in BOOLEAN, sig \in Signatures : signChallenge(c, ok, sig)
    \/ \E out \in Outcomes, at \in AccessTokens \cup {None},
          rt \in IssuedRefreshTokens \cup {None} : tokenResponse(c, out, at, rt)
    \/ \E ok \in BOOLEAN : authStorageSet(c, ok)
    \/ afterAuth(c)

\* every transport, signer and storage invocation of a call is answered in
\* the end, and the event loop runs every continuation that is ready
FairSpec == Spec /\ \A c \in Callers : WF_vars(CallerStep(c))

\* the storage adapter is shared: after load, somebody else sets the entry
\* 'refresh_token' (StorageAdapter.set)
storageWrittenElsewhere(v) ==
    /\ hasStorage
    /\ proc[Loader].pc = "loaded"
    /\ storage # v
    /\ storage' = v
    /\ UNCHANGED <<Config, accessToken, refreshToken, proc, peers, calls>>

NextSharedStorage ==
    \/ Next
    \/ \E v \in ExternalRefreshTokens : storageWrittenElsewhere(v)

SpecSharedStorage == Init /\ [][NextSharedStorage]_vars

TypeOK ==
    /\ accessToken \in AccessTokens \cup {None}
    /\ refreshToken \in RefreshTokens \cup {None}
    /\ storage \in RefreshTokens \cup ExternalRefreshTokens \cup {None}
    /\ calls \in 0..MaxCalls

(***************************************************************************)
(* Properties                                                              *)
(***************************************************************************)

\* a caller c whose ensureAccessToken has a request of an exchange in flight
Exchanging(c) == proc[c].pc \in RefreshPcs \cup AuthPcs

\* the step is the start of a call by c
Starts(c) == calls' = calls + 1 /\ proc'[c] # proc[c]

\* load has come back and its refresh request was answered with an access token
LoadRefreshed ==
    /\ proc[Loader].pc = "loaded"
    /\ proc[Loader].tokens.accessToken # None

\* C1: at most one challenge-response or refresh exchange is in flight at any
\* time, so callers that overlap never have two of them going
C1_SingleInFlightExchange ==
    Cardinality({c \in Callers : Exchanging(c)}) <= 1

\* C2: two overlapping calls that both found no cached access token end the
\* same way: both fail, or both return the same token
C2_OverlappingCallersSameOutcome ==
    \A c, d \in Callers :
        (d \in peers[c] /\ proc[c].pc = "done" /\ proc[d].pc = "done")
            => /\ proc[c].status = proc[d].status
               /\ proc[c].result = proc[d].result

\* C3: once an access token is cached, every call returns that same token
\* without any request: a call that starts with a cached token returns it in
\* the same step, and the cached token is never replaced by another value
\* (or later calls would return something else)
C3_CachedTokenReturnedUnchanged ==
    [][/\ Cached(accessToken) => accessToken' = accessToken
       /\ \A c \in Callers :
            (Starts(c) /\ Cached(accessToken))
                => /\ proc'[c].pc = "done"
                   /\ proc'[c].status = "ok"
                   /\ proc'[c].result = accessToken]_vars

\* C4: when refreshAccessToken comes back after a refresh request that failed
\* (non-success status, or network error), the refresh token is gone from
\* memory and from storage and no access token is cached
C4_RefreshFailureClearsRefreshToken ==
    [][\A p \in Procs :
        (/\ proc[p].pc \in RefreshPcs
         /\ proc'[p].pc \in {"afterRefresh", "loaded"}
         /\ proc'[p].refreshFailed)
            => /\ refreshToken' = None
               /\ storage' = None
               /\ ~Cached(accessToken')]_vars

\* C5: a refresh failure is never surfaced: no call ends with an error
\* inside refreshAccessToken, and a call whose refresh failed and whose
\* challenge and exchange then succeeded returns the access token of that
\* exchange
C5_RefreshFailureNotSurfaced ==
    [][\A c \in Callers :
        /\ proc[c].pc \in RefreshPcs => proc'[c].pc # "done"
        /\ (/\ proc[c].pc = "afterAuth"
            /\ proc[c].refreshFailed
            /\ proc[c].tokens.accessToken # None
            /\ proc'[c].pc = "done")
               => /\ proc'[c].status = "ok"
                  /\ proc'[c].result = proc[c].tokens.accessToken]_vars

\* C6: when load found a refresh token in storage and the refresh request
\* was answered with an access token, no call ever sends a refresh, challenge
\* or exchange request or calls the signer, and every call returns that
\* access token
C6_StoredRefreshTokenAvoidsChallenge ==
    LoadRefreshed =>
        \A c \in Callers :
            /\ proc[c].pc \notin SlowPcs
            /\ proc[c].pc \in {"done", "api"}
                   => proc[c].result = proc[Loader].tokens.accessToken

C6_Witness ==
    /\ LoadRefreshed
    /\ \E c \in Callers :
        /\ proc[c].pc = "done"
        /\ proc[c].status = "ok"
        /\ proc[c].result = proc[Loader].tokens.accessToken

\* C7: when ensureAccessToken returns after a full exchange that succeeded,
\* it returns the accessToken of the exchange response, both tokens of the
\* response are the cached ones, and with a refresh token in the response and
\* a storage adapter the storage entry is that refresh token
C7_ExchangeResultReturnedAndCached ==
    [][\A c \in Callers :
        (/\ proc[c].pc = "afterAuth"
         /\ proc[c].tokens.accessToken # None
         /\ proc'[c].pc = "done")
            => /\ proc'[c].result = proc[c].tokens.accessToken
               /\ accessToken = proc[c].tokens.accessToken
               /\ refreshToken = proc[c].tokens.refreshToken
               /\ (proc[c].tokens.refreshToken # None /\ hasStorage)
                      => storage = proc[c].tokens.refreshToken]_vars

\* C8: a call that does not fail returns a token that is neither absent nor
\* empty
C8_NeverReturnsEmptyToken ==
    \A c \in Callers :
        (proc[c].pc = "done" /\ proc[c].status = "ok")
            => proc[c].result \notin {None, Empty}

\* C9: without a base URL no request is ever sent to the transport and the
\* signer is never called, by load, ensureAccessToken or an API operation,
\* and every finished call has failed
C9_NoBaseUrlNoRequests ==
    ~baseUrl =>
        \A p \in Procs :
            /\ proc[p].pc \notin {"refresh", "challenge", "sign", "exchange", "api"}
            /\ (p \in Callers /\ proc[p].pc \in {"done", "apiDone"})
                   => proc[p].status = "error"

C9_Witness ==
    /\ ~baseUrl
    /\ refreshToken # None
    /\ \E c \in Callers : proc[c].pc = "done" /\ proc[c].status = "error"

\* C10: a full authentication attempt that fails has changed nothing: the
\* cached access token and the refresh token are what they were before the
\* attempt wrote to them
C10_FailedAuthenticationChangesNothing ==
    [][\A c \in Callers :
        (/\ proc[c].pc \in AuthPcs
         /\ proc'[c].pc = "done"
         /\ proc'[c].status = "error")
            => ~proc[c].changed]_vars

\* C11: an API operation sends its request only from its own
\* ensureAccessToken call that has returned without error, and the bearer
\* token of the request is the value that call returned; after a failed
\* call no request is sent
C11_ApiRequestAfterOwnToken ==
    [][\A c \in Callers :
        (proc'[c].pc = "api" /\ proc[c].pc # "api")
            => /\ proc[c].pc = "done"
               /\ proc[c].status = "ok"
               /\ proc'[c].result = proc[c].result]_vars

C11_Witness ==
    \E c, d \in Callers :
        /\ proc[c].pc = "api"
        /\ Cached(proc[c].result)
        /\ proc[d].pc = "done"
        /\ proc[d].status = "error"

\* C12: an API operation whose request is in flight ends with the response,
\* without a second request, a refresh or an authentication; when it ends
\* with an error the cached access token, the refresh token and storage are
\* what they were, and the caller does nothing more until a new call starts
C12_ApiFailureNoRetryNoChange ==
    [][\A c \in Callers :
        /\ (proc[c].pc = "api" /\ proc'[c] # proc[c])
              => /\ proc'[c].pc = "apiDone"
                 /\ proc'[c].status \in {"ok", "error"}
                 /\ proc'[c].status = "error"
                       => /\ accessToken' = accessToken
                          /\ refreshToken' = refreshToken
                          /\ storage' = storage
        /\ (proc[c].pc = "apiDone" /\ proc'[c] # proc[c]) => Starts(c)]_vars

C12_Witness ==
    \E c \in Callers :
        /\ proc[c].pc = "apiDone"
        /\ proc[c].status = "error"
        /\ Cached(accessToken)
        /\ refreshToken # None
        /\ storage # None

PcRank(pc) ==
    CASE pc = "idle" -> 0
      [] pc = "refresh" -> 1
      [] pc = "refreshSet" -> 2
      [] pc = "refreshDel" -> 3
      [] pc = "afterRefresh" -> 4
      [] pc = "challenge" -> 5
      [] pc = "sign" -> 6
      [] pc = "exchange" -> 7
      [] pc = "authSet" -> 8
      [] pc = "afterAuth" -> 9
      [] pc = "done" -> 10
      [] pc = "api" -> 11
      [] pc = "apiDone" -> 12

\* C14: nothing is retried: within one call the code only moves forward, so
\* the call sends at most one refresh, one challenge and one exchange
\* request, and a challenge, signer or exchange step that fails ends the
\* call at once with an error
C14_NoAutomaticRetry ==
    [][\A c \in Callers :
        /\ (proc'[c].pc # proc[c].pc /\ ~Starts(c))
              => PcRank(proc'[c].pc) > PcRank(proc[c].pc)
        /\ (/\ proc[c].pc \in {"challenge", "sign", "exchange"}
            /\ proc'[c] # proc[c]
            /\ proc'[c].pc \notin {"sign", "exchange", "authSet", "afterAuth"})
              => /\ proc'[c].pc = "done"
                 /\ proc'[c].status = "error"]_vars

C14_Witness ==
    \E c, d \in Callers :
        /\ proc[c].pc = "exchange"
        /\ proc[c].refreshFailed
        /\ proc[d].pc = "done"
        /\ proc[d].status = "error"
        /\ baseUrl

\* refreshAccessToken returns to its caller in this step
RefreshReturns(p) == proc'[p].pc \in {"afterRefresh", "loaded"}

\* C15: a refresh request answered with success writes the access token of
\* the response to the cache; with a refresh token in the response it
\* writes that token to memory and, once storage.set has succeeded, to
\* storage; without one it leaves the refresh token in memory and the
\* storage entry as they are.  For load, which runs alone, this is the state
\* in which refreshAccessToken returns.
C15_SuccessfulRefreshEffect ==
    [][\A p \in Procs :
        LET resp == proc'[p].tokens
        IN  /\ (proc[p].pc = "refresh" /\ proc'[p].pc = "refreshSet")
                  => /\ accessToken' = resp.accessToken
                     /\ resp.refreshToken # None
                     /\ refreshToken' = resp.refreshToken
                     /\ storage' = storage
            /\ (proc[p].pc = "refreshSet" /\ RefreshReturns(p))
                  => /\ storage' = proc[p].tokens.refreshToken
                     /\ accessToken' = accessToken
                     /\ refreshToken' = refreshToken
            /\ (proc[p].pc = "refresh" /\ RefreshReturns(p) /\ ~proc'[p].refreshFailed)
                  => /\ accessToken' = resp.accessToken
                     /\ storage' = storage
                     /\ refreshToken' = IF resp.refreshToken # None
                                        THEN resp.refreshToken ELSE refreshToken
            /\ (/\ p = Loader
                /\ proc[p].pc \in {"refresh", "refreshSet"}
                /\ RefreshReturns(p)
                /\ ~proc'[p].refreshFailed)
                  => /\ accessToken' = resp.accessToken
                     /\ resp.refreshToken # None
                           => /\ refreshToken' = resp.refreshToken
                              /\ hasStorage => storage' = resp.refreshToken
                     /\ resp.refreshToken = None
                           => /\ refreshToken' = refreshToken
                              /\ storage' = storage]_vars

C15_Witness ==
    /\ proc[Loader].pc = "loaded"
    /\ proc[Loader].tokens.refreshToken = "RT2"
    /\ \E c \in Callers :
        /\ proc[c].pc = "afterRefresh"
        /\ proc[c].tokens.accessToken \in AccessTokens
        /\ proc[c].tokens.refreshToken = None
        /\ accessToken = proc[c].tokens.accessToken
        /\ refreshToken = "RT2"
        /\ storage = "RT2"

\* load returns in this step
LoadReturns == proc[Loader].pc # "loaded" /\ proc'[Loader].pc = "loaded"

\* the storage adapter has given load a refresh token
LoadGotToken ==
    \/ proc[Loader].pc \in RefreshPcs
    \/ proc[Loader].pc = "get" /\ storage # None

\* C16 as stated: when storage returned a refresh token, the runtime that
\* load returns holds that token and no access token (HasRefreshOnly); with
\* no stored token it holds neither (Unauthenticated)
C16_LoadReturnsHasRefreshOnly ==
    [][LoadReturns =>
          IF LoadGotToken
          THEN refreshToken' \in StoredRefreshTokens /\ accessToken' = None
          ELSE refreshToken' = None /\ accessToken' = None]_vars

\* C16, amended: when storage returned a refresh token, load puts it in
\* memory with no access token cached (HasRefreshOnly) and, with a base URL,
\* sends one refresh request with it before it returns; the runtime that
\* load returns caches the access token of the refresh response (none if the
\* refresh was not answered with one), its refresh token equals the storage
\* entry, and without a base URL it is HasRefreshOnly; with no stored token
\* no request is sent and it is Unauthenticated
C16_LoadRefreshesStoredToken ==
    [][/\ (proc[Loader].pc = "get" /\ proc'[Loader].pc \notin {"get", "failed"})
            => IF storage # None
               THEN /\ refreshToken' = storage
                    /\ accessToken' = None
                    /\ IF baseUrl
                       THEN proc'[Loader].pc = "refresh" /\ proc'[Loader].rt = storage
                       ELSE proc'[Loader].pc = "loaded"
               ELSE proc'[Loader].pc = "loaded"
       /\ LoadReturns
            => /\ accessToken' = proc'[Loader].tokens.accessToken
               /\ refreshToken' = storage'
               /\ ~LoadGotToken => refreshToken' = None /\ accessToken' = None
               /\ (LoadGotToken /\ ~baseUrl)
                     => refreshToken' \in StoredRefreshTokens /\ accessToken' = None]_vars

C16_Witness ==
    /\ proc[Loader].pc = "loaded"
    /\ calls = 0
    /\ accessToken \in AccessTokens
    /\ accessToken = proc[Loader].tokens.accessToken
    /\ refreshToken \in StoredRefreshTokens
    /\ storage = refreshToken

\* C17: storage is read only by load, once: no caller ever waits for a
\* storage get, and a refresh token that somebody else writes to storage
\* after load never becomes the runtime's refresh token and is never sent in
\* a refresh request
C17_StorageReadOnlyByLoad ==
    /\ refreshToken \notin ExternalRefreshTokens
    /\ \A p \in Procs :
        /\ proc[p].rt \notin ExternalRefreshTokens
        /\ proc[p].tokens.refreshToken \notin ExternalRefreshTokens
        /\ proc[p].pc = "get" => (p = Loader /\ calls = 0)

C17_Witness ==
    /\ storage \in ExternalRefreshTokens
    /\ \E c \in Callers :
        /\ proc[c].pc = "refresh"
        /\ proc[c].rt = refreshToken
        /\ refreshToken \in StoredRefreshTokens

\* C18: a usable access token is never lost: once an access token is
\* cached, an access token stays cached in every later state
C18_AccessTokenNeverLost ==
    [][Cached(accessToken) => Cached(accessToken')]_vars

\* p's refresh request is rejected in this step, so that the catch block
\* runs
RefreshFails(p) ==
    /\ proc[p].pc = "refresh"
    /\ \/ proc'[p].pc = "refreshDel"
       \/ RefreshReturns(p) /\ proc'[p].refreshFailed /\ refreshToken' # refreshToken

\* C19: a refresh that fails invalidates only the refresh token it sent: if
\* another refresh token has been installed meanwhile, its failure handler
\* leaves that token in memory and in storage; and whenever no exchange is
\* in flight the storage entry equals the refresh token in memory
C19_FailedRefreshClearsOnlyItsToken ==
    [][/\ \A p \in Procs :
            /\ (RefreshFails(p) /\ refreshToken # proc[p].rt)
                  => refreshToken' = refreshToken
            /\ (proc[p].pc = "refreshDel" /\ storage # proc[p].rt)
                  => storage' = storage
       /\ (/\ hasStorage
           /\ proc'[Loader].pc = "loaded"
           /\ \A c \in Callers : proc'[c].pc \notin SlowPcs)
              => storage' = refreshToken']_vars

\* C20: when every transport, signer and storage invocation is answered,
\* every call of ensureAccessToken that is under way completes in the end
\* (it returns or fails), with any callers overlapping
C20_EveryCallCompletes ==
    \A c \in Callers : (proc[c].pc \in SlowPcs) ~> (proc[c].pc = "done")

C20_Witness ==
    \E c, d \in Callers :
        /\ d \in peers[c]
        /\ c \in peers[d]
        /\ proc[c].pc = "done"
        /\ proc[d].pc = "done"
        /\ proc[c].status = "ok"
        /\ proc[d].status = "error"
====
